---- MODULE Spec2Model ----
(***************************************************************************)
(* Structural pattern matcher of crates/ref_transform/src/matcher.rs.      *)
(*                                                                         *)
(* A goal (pattern) tree is matched against a candidate tree.  The three   *)
(* entry points match_node_exact, match_node_recursive and                 *)
(* match_single_kind are modelled as one machine with an explicit call     *)
(* stack: every frame holds the function, the goal node, the candidate     *)
(* node, the two peekable child cursors and the position in the body.      *)
(* Candidate nodes are identified by their path from the candidate root.   *)
(***************************************************************************)
EXTENDS Integers, Sequences, FiniteSets, TLC

(***************************************************************************)
(* Bounds of the explored inputs.                                          *)
(***************************************************************************)
MaxGoalLen == 3
MaxCandLen == 3
MaxInnerLen == 2
MaxArgs == 3

(***************************************************************************)
(* Syntax nodes: kind (kind_id is equal exactly when kind is), named,      *)
(* text and children.  The text of a node with children is the source      *)
(* it spans: the concatenation of its children's texts.  Texts are         *)
(* sequences of characters.                                                *)
(***************************************************************************)
Leaf(kind, named, text) ==
    [kind |-> kind, named |-> named, text |-> text, children |-> <<>>]

Inner(kind, cs) ==
    [kind |-> kind, named |-> TRUE, text |-> <<>>, children |-> cs]

RECURSIVE Text(_)
Text(n) ==
    IF Len(n.children) = 0 THEN n.text
    ELSE LET RECURSIVE Cat(_)
             Cat(i) == IF i > Len(n.children) THEN <<>>
                       ELSE Text(n.children[i]) \o Cat(i + 1)
         IN Cat(1)

IsLeaf(n) == Len(n.children) = 0

RECURSIVE NodeAt(_, _)
NodeAt(tree, path) ==
    IF path = <<>> THEN tree
    ELSE NodeAt(tree.children[Head(path)], Tail(path))

(***************************************************************************)
(* Meta-variable classifier (extract_meta_var): a pure function of a text. *)
(***************************************************************************)
NoVar == [tag |-> "None", name |-> <<>>]
Named(name) == [tag |-> "Named", name |-> name]
Anonymous == [tag |-> "Anonymous", name |-> <<>>]
Ellipsis == [tag |-> "Ellipsis", name |-> <<>>]
NamedEllipsis(name) == [tag |-> "NamedEllipsis", name |-> name]

IsValidMetaVarChar(ch) == ch \in {"A", "B", "_"}

AllValid(s) == \A i \in 1..Len(s) : IsValidMetaVarChar(s[i])

Classify(text) ==
    IF text = <<"$", "$", "$">> THEN Ellipsis
    ELSE IF Len(text) > 3 /\ SubSeq(text, 1, 3) = <<"$", "$", "$">>
    THEN LET trimmed == SubSeq(text, 4, Len(text))
         IN IF ~AllValid(trimmed) THEN NoVar
            ELSE IF trimmed[1] = "_" THEN Ellipsis
            ELSE NamedEllipsis(trimmed)
    ELSE IF Len(text) = 0 \/ text[1] # "$" THEN NoVar
    ELSE LET trimmed == Tail(text)
         IN IF ~AllValid(trimmed) THEN NoVar
            ELSE IF Len(trimmed) > 0 /\ trimmed[1] = "_" THEN Anonymous
            ELSE Named(trimmed)

extract_var_from_node(n) == Classify(Text(n))

is_ellipsis(n) ==
    extract_var_from_node(n).tag \in {"Ellipsis", "NamedEllipsis"}

(***************************************************************************)
(* Option<Node> and the capture environment.                               *)
(***************************************************************************)
None == [some |-> FALSE, node |-> <<>>]
Some(path) == [some |-> TRUE, node |-> path]

EmptyEnv == [n \in {} |-> <<>>]

EnvInsert(e, name, path) ==
    [n \in (DOMAIN e) \cup {name} |-> IF n = name THEN path ELSE e[n]]

(* Variant: a Named meta-variable matches without being recorded. *)
match_leaf_meta_var_NoInsert(g, cpath, e) ==
    LET extracted == extract_var_from_node(g)
    IN CASE extracted.tag = "None" -> [ret |-> None, env |-> e]
         [] extracted.tag = "Named" -> [ret |-> Some(cpath), env |-> e]
         [] extracted.tag = "Anonymous" -> [ret |-> Some(cpath), env |-> e]
         [] extracted.tag = "Ellipsis" -> [ret |-> Some(cpath), env |-> e]
         [] extracted.tag = "NamedEllipsis" ->
                [ret |-> Some(cpath), env |-> EnvInsert(e, extracted.name, cpath)]

(* Variant: a name that is bound already keeps its binding. *)
match_leaf_meta_var_KeepsFirst(g, cpath, e) ==
    LET extracted == extract_var_from_node(g)
        keep(name) == IF name \in DOMAIN e THEN e ELSE EnvInsert(e, name, cpath)
    IN CASE extracted.tag = "None" -> [ret |-> None, env |-> e]
         [] extracted.tag = "Named" ->
                [ret |-> Some(cpath), env |-> keep(extracted.name)]
         [] extracted.tag = "Anonymous" -> [ret |-> Some(cpath), env |-> e]
         [] extracted.tag = "Ellipsis" -> [ret |-> Some(cpath), env |-> e]
         [] extracted.tag = "NamedEllipsis" ->
                [ret |-> Some(cpath), env |-> keep(extracted.name)]

(* match_leaf_meta_var: the result and the environment it leaves. *)
match_leaf_meta_var(g, cpath, e) ==
    LET extracted == extract_var_from_node(g)
    IN CASE extracted.tag = "None" -> [ret |-> None, env |-> e]
         [] extracted.tag = "Named" ->
                [ret |-> Some(cpath), env |-> EnvInsert(e, extracted.name, cpath)]
         [] extracted.tag = "Anonymous" -> [ret |-> Some(cpath), env |-> e]
         [] extracted.tag = "Ellipsis" -> [ret |-> Some(cpath), env |-> e]
         [] extracted.tag = "NamedEllipsis" ->
                [ret |-> Some(cpath), env |-> EnvInsert(e, extracted.name, cpath)]

(* Peekable::next on a cursor over n children. *)
CursorNext(i, n) == IF i <= n THEN i + 1 ELSE i

(* Peekable::peek is Some exactly while the cursor is on a child. *)
PeekIsSome(i, n) == i <= n

(***************************************************************************)
(* Inputs.                                                                 *)
(***************************************************************************)
Ident(t) == Leaf("identifier", TRUE, t)
Punct(kind, t) == Leaf(kind, FALSE, t)

IdA == Ident(<<"a">>)
IdB == Ident(<<"b">>)
IdC == Ident(<<"c">>)
Comma == Punct(",", <<",">>)
LParen == Punct("(", <<"(">>)
RParen == Punct(")", <<")">>)
Semi == Punct(";", <<";">>)
VarA == Ident(<<"$", "A">>)
VarAnon == Ident(<<"$", "_">>)
Dots == Ident(<<"$", "$", "$">>)
DotsA == Ident(<<"$", "$", "$", "A">>)
DotsB == Ident(<<"$", "$", "$", "B">>)

SeqsUpTo(S, n) == UNION {[1..k -> S] : k \in 0..n}

(* Runs `a ... a x` of identifiers, x being a or b. *)
IdRuns(n) == {[k \in 1..m |-> IF k = m THEN x ELSE IdA] : m \in 1..n, x \in {IdA, IdB}}

(* Flat family: one node over any sequence of leaves, ill-formed goals too. *)
GoalLeaves == {IdA, IdB, Comma, VarA, Dots, DotsA}

FlatGoals ==
    {Inner("arguments", cs) : cs \in SeqsUpTo(GoalLeaves, MaxGoalLen) \ {<<>>}}
FlatCands ==
    {Inner("arguments", cs) : cs \in IdRuns(MaxCandLen)}
        \cup {Leaf("arguments", TRUE, <<"(", ")">>)}

(* Nested family: nodes whose children have children. *)
LeafGoals == {IdA, IdB, VarA, VarAnon, Dots, DotsA}
NestGoalInner ==
    {Inner("call", [k \in 1..n |-> IF k = n THEN x ELSE y]) :
        n \in 1..MaxInnerLen, x \in {IdA, VarA}, y \in {IdA, VarA}}
        \cup {Inner("call", <<Dots>>)}
NestGoals ==
    {Inner("arguments", pre \o <<p>> \o post) :
        pre \in {<<>>, <<Dots>>}, p \in NestGoalInner,
        post \in {<<>>, <<IdA>>, <<VarA>>, <<Inner("call", <<VarA>>)>>}}
NestCandInner == {Inner("call", cs) : cs \in IdRuns(MaxInnerLen)}
NestCands ==
    {Inner("arguments", cs) :
        cs \in {<<q>> : q \in NestCandInner}
                \cup {<<q, r>> : q \in NestCandInner, r \in NestCandInner \cup {IdA}}
                \cup {<<IdA, q>> : q \in NestCandInner}
                \cup {<<IdA>>, <<IdA, IdA>>}}

(* Call family: argument lists as the parser builds them, `f(a, b, c)`. *)
ArgLetters == <<"a", "b", "c", "d", "e">>
Arg(i) == Ident(<<ArgLetters[i]>>)
ArgSlice(i, j) == [k \in 1..(j + 1 - i) |-> Arg(i + k - 1)]
ArgSlices == {ArgSlice(i, j) : i \in 1..MaxArgs, j \in 0..MaxArgs}

RECURSIVE CommaSep(_)
CommaSep(items) ==
    IF Len(items) <= 1 THEN items
    ELSE <<Head(items), Comma>> \o CommaSep(Tail(items))

Args(items) == Inner("arguments", <<LParen>> \o CommaSep(items) \o <<RParen>>)
CallExpr(f, items) == Inner("call_expression", <<Ident(f), Args(items)>>)
Program(stmt) == Inner("program", <<stmt>>)

EllipsisOpt == {<<>>, <<Dots>>, <<DotsA>>}
ArgPatterns == {h \o s \o t : h \in EllipsisOpt, s \in ArgSlices, t \in EllipsisOpt}

(* Declaration family: `const a = 123` against the candidates of the tests. *)
Declarator ==
    Inner("variable_declarator",
          <<IdA, Punct("=", <<"=">>), Leaf("number", TRUE, <<"1", "2", "3">>)>>)
ConstDecl == Inner("lexical_declaration", <<Punct("const", <<"c", "o", "n", "s", "t">>), Declarator>>)
ConstDeclSemi ==
    Inner("lexical_declaration", <<Punct("const", <<"c", "o", "n", "s", "t">>), Declarator, Punct(";", <<";">>)>>)
VarDecl == Inner("variable_declaration", <<Punct("var", <<"v", "a", "r">>), Declarator>>)
Block(stmts) == Inner("statement_block", <<Punct("{", <<"{">>)>> \o stmts \o <<Punct("}", <<"}">>)>>)
DeclCands ==
    {ConstDecl, ConstDeclSemi, VarDecl,
     Program(ConstDecl), Program(VarDecl),
     Program(Block(<<ConstDeclSemi>>)),
     Program(Block(<<VarDecl, Block(<<ConstDeclSemi>>)>>))}

(* Function family: the declarations of test_should_exactly_match and *)
(* test_match_inner.                                                 *)
Foo == <<"f", "o", "o">>
Bar == <<"b", "a", "r">>
LetDecl ==
    Inner("lexical_declaration",
          <<Punct("let", <<"l", "e", "t">>), Declarator, Punct(";", <<";">>)>>)
Func(name, body) ==
    Inner("function_declaration",
          <<Punct("function", <<"f", "u", "n", "c", "t", "i", "o", "n">>),
            Ident(name),
            Inner("formal_parameters", <<LParen, RParen>>),
            Block(body)>>)
FuncGoals == {Func(Foo, <<LetDecl>>), Func(Bar, <<LetDecl>>)}
FuncCands ==
    {Program(Func(Foo, <<LetDecl>>)), Program(Func(Bar, <<LetDecl>>)),
     Program(Func(Foo, <<Func(Bar, <<LetDecl>>)>>))}

(* Skip family: an ellipsis, unnamed tokens of any kind, at most one leaf. *)
UnnamedTokens == {Comma, Semi, RParen}
SkipGoals ==
    {Inner("arguments", <<Dots>> \o us \o rest) :
        us \in {<<u>> : u \in UnnamedTokens}
                \cup {<<u, v>> : u \in UnnamedTokens, v \in UnnamedTokens},
        rest \in {<<>>, <<IdA>>, <<IdB>>}}

(* Adjacent family: `f($$$A, $$$B)`. *)
AdjacentArgs == <<DotsA, DotsB>>

(* Anchor family: a sub-pattern that matches at two places of the candidate. *)
AnchorGoal == Inner("arguments", <<Dots, IdA, IdB>>)
AnchorCand == Inner("arguments", <<IdA, IdC, IdA, IdB>>)

NoGoal == Leaf("identifier", TRUE, <<>>)
StaleEnv == [n \in {<<"A">>} |-> <<>>]

Input(g, c, e) == [goal |-> g, cand |-> c, env |-> e]

(* match_node_exact: the flat family from the empty env of the tests, the *)
(* other families also from an env that holds a binding already.         *)
ExactInputs ==
    {Input(g, c, EmptyEnv) : g \in FlatGoals, c \in FlatCands}
        \cup {Input(g, c, e) :
                g \in NestGoals \cup NestGoalInner \cup LeafGoals, c \in NestCands,
                e \in {EmptyEnv, StaleEnv}}
        \cup {Input(Args(g), Args(c), e) :
                g \in ArgPatterns, c \in ArgSlices, e \in {EmptyEnv, StaleEnv}}
        \cup {Input(ConstDecl, c, e) : c \in DeclCands, e \in {EmptyEnv, StaleEnv}}
        \cup {Input(AnchorGoal, AnchorCand, EmptyEnv)}
        \cup {Input(g, c, EmptyEnv) : g \in SkipGoals, c \in FlatCands}
        \cup {Input(Args(AdjacentArgs), Args(c), EmptyEnv) : c \in ArgSlices}
(* match_node_recursive: called as test_match and test_non_match call it. *)
RecursiveInputs ==
    {Input(g, c, EmptyEnv) :
        g \in NestGoals \cup NestGoalInner \cup LeafGoals, c \in NestCands}
        \cup {Input(CallExpr(<<"f">>, g), Program(CallExpr(<<"f">>, c)), EmptyEnv) :
                g \in ArgPatterns, c \in ArgSlices}
        \cup {Input(CallExpr(<<"f">>, g), Program(CallExpr(<<"g">>, <<>>)), EmptyEnv) :
                g \in ArgPatterns}
        \cup {Input(ConstDecl, c, EmptyEnv) : c \in DeclCands}
        \cup {Input(g, c, EmptyEnv) : g \in FuncGoals, c \in FuncCands}
        \cup {Input(CallExpr(<<"f">>, AdjacentArgs), Program(CallExpr(<<"f">>, c)), EmptyEnv) :
                c \in {<<>>, ArgSlice(1, 1)}}
KindInputs ==
    {Input(NoGoal, c, e) :
        c \in FlatCands \cup NestCands \cup DeclCands, e \in {EmptyEnv, StaleEnv}}

Kinds == {"identifier", "arguments", "call", "lexical_declaration", "string"}

(***************************************************************************)
(* State.                                                                  *)
(***************************************************************************)
VARIABLES
    goal,       \* the pattern tree
    cand,       \* the candidate tree
    goal_kind,  \* the kind asked of match_single_kind
    mode,       \* the entry point called: "exact", "recursive", "kind"
    env,        \* the capture environment, name -> candidate node
    env0,       \* env as it was handed to the entry point
    stack,      \* call stack, innermost frame last
    ret,        \* value returned by the call that returned last
    status,     \* "running", "done", "panic"
    tried       \* history: the match_node_exact results seen by match_node_recursive

matcher_vars == <<goal, cand, goal_kind, mode, env, env0, stack, ret, status, tried>>

(* The template parser: the fields of AstBuilder, its token source and its *)
(* error handler.                                                          *)
VARIABLES
    option,            \* ParseOption
    debug_assertions,  \* whether the build keeps debug_assert!
    scanned,           \* number of tokens the token source has yielded
    eof,               \* the token source has returned None
    token,             \* the token handed to parse_token
    open_elems,        \* stack of open elements, innermost last
    root_nodes,        \* the nodes of the root
    pre_count,         \* how many <pre> are open
    v_pre_index,       \* Option<usize>: {} or {index of the v-pre boundary}
    errors,            \* the error kinds handed to the error handler, in order
    handed,            \* history: the lists handed to compress_whitespaces
    phase              \* "idle", "next", "parse_token", "done", "panic"

parser_vars ==
    <<option, debug_assertions, scanned, eof, token, open_elems, root_nodes,
      pre_count, v_pre_index, errors, handed, phase>>

vars == <<matcher_vars, parser_vars>>

(* ParseOption::default(), lines 252-266, as far as the builder reads it. *)
DefaultOption == [whitespace |-> "Condense", preserve_comment |-> TRUE]

NoToken == [type |-> "None"]

(* No parser runs. *)
ParserIdle ==
    /\ option = DefaultOption
    /\ debug_assertions = FALSE
    /\ scanned = 0
    /\ eof = TRUE
    /\ token = NoToken
    /\ open_elems = <<>>
    /\ root_nodes = <<>>
    /\ pre_count = 0
    /\ v_pre_index = {}
    /\ errors = <<>>
    /\ handed = <<>>
    /\ phase = "idle"

Frame(fn, g, c, pc) == [fn |-> fn, g |-> g, c |-> c, pc |-> pc, gi |-> 1, ci |-> 1]

Top == stack[Len(stack)]
Running == status = "running" /\ Len(stack) > 0
At(fn, pc) == Running /\ Top.fn = fn /\ Top.pc = pc

GoalNode == NodeAt(goal, Top.g)
CandNode == NodeAt(cand, Top.c)
GoalLen == Len(GoalNode.children)
CandLen == Len(CandNode.children)

Init ==
    /\ \/ /\ mode = "exact"
          /\ \E inp \in ExactInputs :
                goal = inp.goal /\ cand = inp.cand /\ env0 = inp.env
          /\ goal_kind = ""
       \/ /\ mode = "recursive"
          /\ \E inp \in RecursiveInputs :
                goal = inp.goal /\ cand = inp.cand /\ env0 = inp.env
          /\ goal_kind = ""
       \/ /\ mode = "kind"
          /\ \E inp \in KindInputs :
                goal = inp.goal /\ cand = inp.cand /\ env0 = inp.env
          /\ goal_kind \in Kinds
    /\ env = env0
    /\ stack = <<Frame(mode, <<>>, <<>>, "entry")>>
    /\ ret = None
    /\ status = "running"
    /\ tried = <<>>
    /\ ParserIdle

(* Replace the innermost frame. *)
SetTop(f) == stack' = [stack EXCEPT ![Len(stack)] = f]

(* The innermost call returns v leaving the environment e. *)
Return(v, e) ==
    /\ stack' = SubSeq(stack, 1, Len(stack) - 1)
    /\ ret' = v
    /\ env' = e
    /\ status' = IF Len(stack) = 1 THEN "done" ELSE status
    /\ UNCHANGED <<parser_vars, goal, cand, goal_kind, mode, env0, tried>>

(* The innermost frame moves on to f. *)
Goto(f) ==
    /\ SetTop(f)
    /\ UNCHANGED <<parser_vars, goal, cand, goal_kind, mode, env, env0, ret, status, tried>>

(* The innermost frame moves to pc and calls fn(g, c, env). *)
Call(pc, fn, g, c) ==
    /\ stack' = Append([stack EXCEPT ![Len(stack)].pc = pc], Frame(fn, g, c, "entry"))
    /\ UNCHANGED <<parser_vars, goal, cand, goal_kind, mode, env, env0, ret, status, tried>>

(* unwrap() of None, or a failed debug_assert!. *)
Panic ==
    /\ status' = "panic"
    /\ UNCHANGED <<parser_vars, goal, cand, goal_kind, mode, env, env0, stack, ret, tried>>

(***************************************************************************)
(* match_node_exact                                                        *)
(***************************************************************************)
(* Variant: the kind check guards the literal leaf comparison only. *)
ExactEntry_LeafKindOnly ==
    /\ At("exact", "entry")
    /\ LET is_leaf == IsLeaf(GoalNode)
           m == match_leaf_meta_var(GoalNode, Top.c, env)
       IN IF is_leaf /\ m.ret.some THEN Return(m.ret, m.env)
          ELSE IF is_leaf /\ GoalNode.kind # CandNode.kind THEN Return(None, env)
          ELSE IF is_leaf
          THEN IF extract_var_from_node(GoalNode) # NoVar THEN Panic
               ELSE IF Text(GoalNode) = Text(CandNode)
               THEN Return(Some(Top.c), env)
               ELSE Return(None, env)
          ELSE IF ~PeekIsSome(1, CandLen) THEN Return(None, env)
          ELSE Goto([Top EXCEPT !.pc = "loop", !.gi = 1, !.ci = 1])

(* Variant: the sequence loop is entered without looking at the candidate cursor. *)
ExactEntry_NoCandPeek ==
    /\ At("exact", "entry")
    /\ LET is_leaf == IsLeaf(GoalNode)
           m == match_leaf_meta_var(GoalNode, Top.c, env)
       IN IF is_leaf /\ m.ret.some THEN Return(m.ret, m.env)
          ELSE IF GoalNode.kind # CandNode.kind THEN Return(None, env)
          ELSE IF is_leaf
          THEN IF extract_var_from_node(GoalNode) # NoVar THEN Panic
               ELSE IF Text(GoalNode) = Text(CandNode)
               THEN Return(Some(Top.c), env)
               ELSE Return(None, env)
          ELSE Goto([Top EXCEPT !.pc = "loop", !.gi = 1, !.ci = 1])

(* Variant: a literal leaf is compared by kind alone. *)
ExactEntry_IgnoreText ==
    /\ At("exact", "entry")
    /\ LET is_leaf == IsLeaf(GoalNode)
           m == match_leaf_meta_var(GoalNode, Top.c, env)
       IN IF is_leaf /\ m.ret.some THEN Return(m.ret, m.env)
          ELSE IF GoalNode.kind # CandNode.kind THEN Return(None, env)
          ELSE IF is_leaf
          THEN IF extract_var_from_node(GoalNode) # NoVar THEN Panic
               ELSE Return(Some(Top.c), env)
          ELSE IF ~PeekIsSome(1, CandLen) THEN Return(None, env)
          ELSE Goto([Top EXCEPT !.pc = "loop", !.gi = 1, !.ci = 1])

(* Lines 53-72: leaf goal, kind check, cursors. *)
ExactEntry ==
    /\ At("exact", "entry")
    /\ LET is_leaf == IsLeaf(GoalNode)
           m == match_leaf_meta_var(GoalNode, Top.c, env)
       IN IF is_leaf /\ m.ret.some THEN Return(m.ret, m.env)
          ELSE IF GoalNode.kind # CandNode.kind THEN Return(None, env)
          ELSE IF is_leaf
          THEN IF extract_var_from_node(GoalNode) # NoVar THEN Panic
               ELSE IF Text(GoalNode) = Text(CandNode)
               THEN Return(Some(Top.c), env)
               ELSE Return(None, env)
          ELSE IF ~PeekIsSome(1, CandLen) THEN Return(None, env)
          ELSE Goto([Top EXCEPT !.pc = "loop", !.gi = 1, !.ci = 1])

(* Variant: an ellipsis takes one candidate child at least. *)
ExactLoop_EllipsisTakesOne ==
    /\ At("exact", "loop")
    /\ IF ~PeekIsSome(Top.gi, GoalLen) THEN Panic
       ELSE IF is_ellipsis(GoalNode.children[Top.gi])
       THEN LET gi == CursorNext(Top.gi, GoalLen)
                ci == CursorNext(Top.ci, CandLen)
            IN IF ~PeekIsSome(ci, CandLen) THEN Return(None, env)
               ELSE IF ~PeekIsSome(gi, GoalLen) THEN Return(Some(Top.c), env)
               ELSE Goto([Top EXCEPT !.pc = "skip", !.gi = gi, !.ci = ci])
       ELSE Goto([Top EXCEPT !.pc = "child"])

(* Variant: a named ellipsis child binds its name to the candidate child *)
(* under the cursor.                                                    *)
ExactLoop_BindsEllipsis ==
    /\ At("exact", "loop")
    /\ IF ~PeekIsSome(Top.gi, GoalLen) THEN Panic
       ELSE IF is_ellipsis(GoalNode.children[Top.gi])
       THEN LET v == extract_var_from_node(GoalNode.children[Top.gi])
                e == IF v.tag = "NamedEllipsis"
                     THEN EnvInsert(env, v.name, Append(Top.c, Top.ci)) ELSE env
                gi == CursorNext(Top.gi, GoalLen)
            IN IF ~PeekIsSome(gi, GoalLen) THEN Return(Some(Top.c), e)
               ELSE /\ SetTop([Top EXCEPT !.pc = "skip", !.gi = gi])
                    /\ env' = e
                    /\ UNCHANGED <<parser_vars, goal, cand, goal_kind, mode, env0, ret, status, tried>>
       ELSE Goto([Top EXCEPT !.pc = "child"])

(* Lines 74-81: head of the sequence loop. *)
ExactLoop ==
    /\ At("exact", "loop")
    /\ IF ~PeekIsSome(Top.gi, GoalLen) THEN Panic
       ELSE IF is_ellipsis(GoalNode.children[Top.gi])
       THEN LET gi == CursorNext(Top.gi, GoalLen)
            IN IF ~PeekIsSome(gi, GoalLen) THEN Return(Some(Top.c), env)
               ELSE Goto([Top EXCEPT !.pc = "skip", !.gi = gi])
       ELSE Goto([Top EXCEPT !.pc = "child"])

(* Variant: the goal child behind an ellipsis is matched whether named or not. *)
ExactSkipUnnamed_Compares ==
    /\ At("exact", "skip")
    /\ IF ~PeekIsSome(Top.gi, GoalLen) THEN Panic
       ELSE Goto([Top EXCEPT !.pc = "after_skip"])

(* Lines 82-88: one test of the while loop that skips unnamed goal children. *)
ExactSkipUnnamed ==
    /\ At("exact", "skip")
    /\ IF ~PeekIsSome(Top.gi, GoalLen) THEN Panic
       ELSE IF ~GoalNode.children[Top.gi].named
       THEN LET gi == CursorNext(Top.gi, GoalLen)
            IN IF ~PeekIsSome(gi, GoalLen) THEN Return(Some(Top.c), env)
               ELSE Goto([Top EXCEPT !.gi = gi])
       ELSE Goto([Top EXCEPT !.pc = "after_skip"])

(* Variant: an ellipsis right after an ellipsis consumes no candidate. *)
ExactAfterSkip_NoConsume ==
    /\ At("exact", "after_skip")
    /\ IF ~PeekIsSome(Top.gi, GoalLen) THEN Panic
       ELSE IF is_ellipsis(GoalNode.children[Top.gi])
       THEN Goto([Top EXCEPT !.pc = "loop"])
       ELSE Goto([Top EXCEPT !.pc = "scan"])

(* Lines 90-95: an ellipsis right after an ellipsis consumes one candidate. *)
ExactAfterSkip ==
    /\ At("exact", "after_skip")
    /\ IF ~PeekIsSome(Top.gi, GoalLen) THEN Panic
       ELSE IF is_ellipsis(GoalNode.children[Top.gi])
       THEN LET ci == CursorNext(Top.ci, CandLen)
            IN IF ~PeekIsSome(ci, CandLen) THEN Return(None, env)
               ELSE Goto([Top EXCEPT !.pc = "loop", !.ci = ci])
       ELSE Goto([Top EXCEPT !.pc = "scan"])

(* Lines 97-101: the forward scan tries the sub-pattern on the candidate child. *)
ExactScanCall ==
    /\ At("exact", "scan")
    /\ IF ~PeekIsSome(Top.gi, GoalLen) \/ ~PeekIsSome(Top.ci, CandLen) THEN Panic
       ELSE Call("scan_ret", "exact", Append(Top.g, Top.gi), Append(Top.c, Top.ci))

(* Variant: the sub-pattern is tried at the cursor only, never further on. *)
ExactScanRet_GiveUp ==
    /\ At("exact", "scan_ret")
    /\ IF ret.some THEN Goto([Top EXCEPT !.pc = "child"])
       ELSE Return(None, env)

(* Variant: a failed try of the sub-pattern is repeated on the same candidate child. *)
ExactScanRet_NoAdvance ==
    /\ At("exact", "scan_ret")
    /\ IF ret.some THEN Goto([Top EXCEPT !.pc = "child"])
       ELSE IF ~PeekIsSome(Top.ci, CandLen) THEN Return(None, env)
            ELSE Goto([Top EXCEPT !.pc = "scan"])

(* Lines 102-109: break on a match, else advance the candidate cursor. *)
ExactScanRet ==
    /\ At("exact", "scan_ret")
    /\ IF ret.some THEN Goto([Top EXCEPT !.pc = "child"])
       ELSE LET ci == CursorNext(Top.ci, CandLen)
            IN IF ~PeekIsSome(ci, CandLen) THEN Return(None, env)
               ELSE Goto([Top EXCEPT !.pc = "scan", !.ci = ci])

(* Lines 111-114: match the goal child against the candidate child. *)
ExactChildCall ==
    /\ At("exact", "child")
    /\ IF ~PeekIsSome(Top.gi, GoalLen) \/ ~PeekIsSome(Top.ci, CandLen) THEN Panic
       ELSE Call("child_ret", "exact", Append(Top.g, Top.gi), Append(Top.c, Top.ci))

(* Variant: the exhausted candidate cursor is looked at before the goal cursor. *)
ExactChildRet_CandFirst ==
    /\ At("exact", "child_ret")
    /\ IF ~ret.some THEN Return(None, env)
       ELSE LET gi == CursorNext(Top.gi, GoalLen)
                ci == CursorNext(Top.ci, CandLen)
            IN IF ~PeekIsSome(ci, CandLen) THEN Return(None, env)
               ELSE IF ~PeekIsSome(gi, GoalLen) THEN Return(Some(Top.c), env)
               ELSE Goto([Top EXCEPT !.pc = "loop", !.gi = gi, !.ci = ci])

(* Variant: the last matched child is handed back as the result. *)
ExactChildRet_ReturnChild ==
    /\ At("exact", "child_ret")
    /\ IF ~ret.some THEN Return(None, env)
       ELSE LET gi == CursorNext(Top.gi, GoalLen)
                ci == CursorNext(Top.ci, CandLen)
            IN IF ~PeekIsSome(gi, GoalLen) THEN Return(ret, env)
               ELSE IF ~PeekIsSome(ci, CandLen) THEN Return(None, env)
               ELSE Goto([Top EXCEPT !.pc = "loop", !.gi = gi, !.ci = ci])

(* Variant: candidate children left over after the last goal child fail the match. *)
ExactChildRet_NoLeftover ==
    /\ At("exact", "child_ret")
    /\ IF ~ret.some THEN Return(None, env)
       ELSE LET gi == CursorNext(Top.gi, GoalLen)
                ci == CursorNext(Top.ci, CandLen)
            IN IF ~PeekIsSome(gi, GoalLen)
               THEN Return(IF PeekIsSome(ci, CandLen) THEN None ELSE Some(Top.c), env)
               ELSE IF ~PeekIsSome(ci, CandLen) THEN Return(None, env)
               ELSE Goto([Top EXCEPT !.pc = "loop", !.gi = gi, !.ci = ci])

(* Variant: a failure after an anchored sub-pattern resumes the forward scan *)
(* one candidate child after the anchor.                                   *)
ExactChildRet_Backtrack ==
    /\ At("exact", "child_ret")
    /\ IF ~ret.some
       THEN LET es == {e \in 1..(Top.gi - 1) : is_ellipsis(GoalNode.children[e])}
                last == IF es = {} THEN 0 ELSE CHOOSE x \in es : \A y \in es : y <= x
                ps == {x \in (last + 1)..Top.gi : GoalNode.children[x].named}
                p == IF ps = {} THEN 0 ELSE CHOOSE x \in ps : \A y \in ps : x <= y
                ci == Top.ci - (Top.gi - p) + 1
            IN IF last = 0 \/ p = 0 \/ ~PeekIsSome(ci, CandLen) THEN Return(None, env)
               ELSE Goto([Top EXCEPT !.pc = "scan", !.gi = p, !.ci = ci])
       ELSE LET gi == CursorNext(Top.gi, GoalLen)
                ci == CursorNext(Top.ci, CandLen)
            IN IF ~PeekIsSome(gi, GoalLen) THEN Return(Some(Top.c), env)
               ELSE IF ~PeekIsSome(ci, CandLen) THEN Return(None, env)
               ELSE Goto([Top EXCEPT !.pc = "loop", !.gi = gi, !.ci = ci])

(* Variant: a failed goal child hands back the environment of the entry point. *)
ExactChildRet_Rollback ==
    /\ At("exact", "child_ret")
    /\ IF ~ret.some THEN Return(None, env0)
       ELSE LET gi == CursorNext(Top.gi, GoalLen)
                ci == CursorNext(Top.ci, CandLen)
            IN IF ~PeekIsSome(gi, GoalLen) THEN Return(Some(Top.c), env)
               ELSE IF ~PeekIsSome(ci, CandLen) THEN Return(None, env)
               ELSE Goto([Top EXCEPT !.pc = "loop", !.gi = gi, !.ci = ci])

(* Lines 115-122: propagate a failure, else advance both cursors. *)
ExactChildRet ==
    /\ At("exact", "child_ret")
    /\ IF ~ret.some THEN Return(None, env)
       ELSE LET gi == CursorNext(Top.gi, GoalLen)
                ci == CursorNext(Top.ci, CandLen)
            IN IF ~PeekIsSome(gi, GoalLen) THEN Return(Some(Top.c), env)
               ELSE IF ~PeekIsSome(ci, CandLen) THEN Return(None, env)
               ELSE Goto([Top EXCEPT !.pc = "loop", !.gi = gi, !.ci = ci])

(***************************************************************************)
(* match_node_recursive                                                    *)
(***************************************************************************)
(* Line 136: match_node_exact(goal, candidate, env). *)
RecursiveEntry ==
    /\ At("recursive", "entry")
    /\ Call("exact_ret", "exact", Top.g, Top.c)

(* Line 136: or_else. *)
RecursiveExactRet ==
    /\ At("recursive", "exact_ret")
    /\ tried' = Append(tried, <<Top.c, ret.some>>)
    /\ IF ret.some
       THEN /\ stack' = SubSeq(stack, 1, Len(stack) - 1)
            /\ status' = IF Len(stack) = 1 THEN "done" ELSE status
            /\ UNCHANGED <<parser_vars, goal, cand, goal_kind, mode, env, env0, ret>>
       ELSE /\ SetTop([Top EXCEPT !.pc = "children", !.ci = 1])
            /\ UNCHANGED <<parser_vars, goal, cand, goal_kind, mode, env, env0, ret, status>>

(* Variant: the children are tried with match_node_exact, one level deep. *)
RecursiveChildren_Shallow ==
    /\ At("recursive", "children")
    /\ IF ~PeekIsSome(Top.ci, CandLen) THEN Return(None, env)
       ELSE Call("child_ret", "exact", Top.g, Append(Top.c, Top.ci))

(* Lines 137-139: find_map takes the next child, or ends with None. *)
RecursiveChildren ==
    /\ At("recursive", "children")
    /\ IF ~PeekIsSome(Top.ci, CandLen) THEN Return(None, env)
       ELSE Call("child_ret", "recursive", Top.g, Append(Top.c, Top.ci))

(* Line 139: find_map stops at the first Some. *)
RecursiveChildRet ==
    /\ At("recursive", "child_ret")
    /\ IF ret.some THEN Return(ret, env)
       ELSE Goto([Top EXCEPT !.pc = "children", !.ci = Top.ci + 1])

(***************************************************************************)
(* match_single_kind                                                       *)
(***************************************************************************)
(* Variant: the search of the children starts at the second child. *)
KindEntry_SkipFirst ==
    /\ At("kind", "entry")
    /\ IF CandNode.kind = goal_kind THEN Return(Some(Top.c), env)
       ELSE Goto([Top EXCEPT !.pc = "children", !.ci = 2])

(* Lines 9-13. *)
KindEntry ==
    /\ At("kind", "entry")
    /\ IF CandNode.kind = goal_kind THEN Return(Some(Top.c), env)
       ELSE Goto([Top EXCEPT !.pc = "children", !.ci = 1])

(* Lines 14-16: find_map takes the next child, or ends with None. *)
KindChildren ==
    /\ At("kind", "children")
    /\ IF ~PeekIsSome(Top.ci, CandLen) THEN Return(None, env)
       ELSE Call("child_ret", "kind", Top.g, Append(Top.c, Top.ci))

(* Line 16: find_map stops at the first Some. *)
KindChildRet ==
    /\ At("kind", "child_ret")
    /\ IF ret.some THEN Return(ret, env)
       ELSE Goto([Top EXCEPT !.pc = "children", !.ci = Top.ci + 1])

Next ==
    \/ ExactEntry
    \/ ExactLoop
    \/ ExactSkipUnnamed
    \/ ExactAfterSkip
    \/ ExactScanCall
    \/ ExactScanRet
    \/ ExactChildCall
    \/ ExactChildRet
    \/ RecursiveEntry
    \/ RecursiveExactRet
    \/ RecursiveChildren
    \/ RecursiveChildRet
    \/ KindEntry
    \/ KindChildren
    \/ KindChildRet

Spec == Init /\ [][Next]_vars

(* The matcher is sequential code run by the calling thread: a call that   *)
(* can take its next step takes it.                                        *)
TerminationSpec == Init /\ [][Next]_vars /\ WF_vars(Next)

(***************************************************************************)
(* The template parser.  Source positions, namespaces and the scanner's    *)
(* in-html flag are not modelled; attributes are modelled by the v-pre     *)
(* directive alone.                                                        *)
(***************************************************************************)
MaxTokens == 5

ParseOptions == [whitespace : {"Condense", "Preserve"}, preserve_comment : BOOLEAN]

(* VStr: the raw text and the operations pending on it. *)
VStr(raw) == [raw |-> raw, ops |-> {}]

StartTag(name, self_closing, v_pre) ==
    [type |-> "StartTag", name |-> name, self_closing |-> self_closing, v_pre |-> v_pre]
EndTag(name) == [type |-> "EndTag", name |-> name]
TextToken(raw) == [type |-> "Text", text |-> VStr(raw)]
CommentToken == [type |-> "Comment"]
InterpolationToken == [type |-> "Interpolation"]

TextTokens == {TextToken(<<"a">>), TextToken(<<"\n">>)}
NonTextTokens ==
    {StartTag("p", FALSE, FALSE), StartTag("pre", FALSE, FALSE),
     StartTag("p", FALSE, TRUE), StartTag("p", TRUE, FALSE),
     EndTag("P"), EndTag("pre"), CommentToken, InterpolationToken}
Tokens == TextTokens \cup NonTextTokens

(* str::eq_ignore_ascii_case on the tag names in use. *)
ToAsciiLower(name) == IF name = "P" THEN "p" ELSE name
element_matches_end_tag(e, tag) == ToAsciiLower(e.tag_name) = ToAsciiLower(tag)

(* ParseOption::default(): is_pre_tag, get_text_mode, is_void_tag. *)
is_pre_tag(name) == name = "pre"
get_text_mode(name) == "Data"
is_void_tag(name) == FALSE

Element(name, v_pre) ==
    [type |-> "Element", tag_name |-> name, tag_type |-> "Plain",
     v_pre |-> v_pre, children |-> <<>>]
TextNode(text) == [type |-> "Text", text |-> text]
CommentNode == [type |-> "Comment"]
InterpolationNode == [type |-> "Interpolation"]

is_element(n) == n.type = "Element"
is_v_pre_boundary(elem) == elem.v_pre

IsWhitespace(raw) == \A i \in 1..Len(raw) : raw[i] \in {" ", "\n"}
is_all_whitespace(tn) == \A i \in 1..Len(tn.text) : IsWhitespace(tn.text[i].raw)

(* Lines 106-126. *)
trim_leading_newline(tn) ==
    IF tn.text = <<>> THEN tn
    ELSE LET first == tn.text[1]
         IN IF first.raw = <<>> \/ first.raw[1] # "\n" THEN tn
            ELSE IF Len(first.raw) > 1
            THEN [tn EXCEPT !.text[1].raw = Tail(first.raw)]
            ELSE [tn EXCEPT !.text = Tail(tn.text)]

(* Lines 888-896. *)
compress_text_node(n) ==
    [n EXCEPT !.text = [i \in 1..Len(n.text) |->
                           [n.text[i] EXCEPT !.ops = @ \cup {"compress_whitespace"}]]]

(* The debug assertion of lines 833-846. *)
no_consecutive_text(nodes) ==
    \A i \in 1..(Len(nodes) - 1) : ~(nodes[i].type = "Text" /\ nodes[i + 1].type = "Text")

(* Deref of TextNode, lines 93-99: text[0], asserted to be the only piece. *)
DerefFails(tn) == tn.text = <<>> \/ (debug_assertions /\ Len(tn.text) # 1)

(* Lines 847-880: the loop from index i on; ok is FALSE when it panics. *)
RECURSIVE CompressFrom(_, _, _)
CompressFrom(nodes, i, need_condense) ==
    IF i > Len(nodes) THEN [nodes |-> nodes, ok |-> TRUE]
    ELSE LET child == nodes[i]
             Drop == [k \in 1..(Len(nodes) - 1) |-> IF k < i THEN nodes[k] ELSE nodes[k + 1]]
         IN IF child.type # "Text" THEN CompressFrom(nodes, i + 1, need_condense)
            ELSE IF ~is_all_whitespace(child)
            THEN CompressFrom(IF need_condense
                              THEN [nodes EXCEPT ![i] = compress_text_node(child)]
                              ELSE nodes, i + 1, need_condense)
            ELSE IF i = Len(nodes) \/ i = 1 THEN CompressFrom(Drop, i, need_condense)
            ELSE IF ~need_condense THEN CompressFrom(nodes, i + 1, need_condense)
            ELSE IF nodes[i - 1].type = "Comment" /\ nodes[i + 1].type = "Comment"
            THEN CompressFrom(Drop, i, need_condense)
            ELSE IF ~(is_element(nodes[i - 1]) /\ is_element(nodes[i + 1]))
            THEN CompressFrom(nodes, i + 1, need_condense)
            ELSE IF DerefFails(child) THEN [nodes |-> nodes, ok |-> FALSE]
            ELSE IF \E k \in 1..Len(child.text[1].raw) : child.text[1].raw[k] = "\n"
            THEN CompressFrom(Drop, i, need_condense)
            ELSE CompressFrom(nodes, i + 1, need_condense)

(* Lines 831-881. *)
compress_whitespaces(nodes, need_condense) ==
    IF debug_assertions /\ ~no_consecutive_text(nodes)
    THEN [nodes |-> nodes, ok |-> FALSE]
    ELSE CompressFrom(nodes, 1, need_condense)

(* The fields of AstBuilder that the handlers change; ok is FALSE once a *)
(* handler has panicked.                                                 *)
Builder ==
    [open_elems |-> open_elems, root_nodes |-> root_nodes, pre_count |-> pre_count,
     v_pre_index |-> v_pre_index, errors |-> errors, handed |-> handed, ok |-> TRUE]

(* debug_assert!(cond) *)
DebugAssert(b, cond) == IF debug_assertions /\ ~cond THEN [b EXCEPT !.ok = FALSE] ELSE b

(* Lines 637-639. *)
need_condense == option.whitespace = "Condense"

(* Lines 322-328. *)
insert_node(b, node) ==
    IF b.open_elems # <<>>
    THEN [b EXCEPT !.open_elems[Len(b.open_elems)].children = Append(@, node)]
    ELSE [b EXCEPT !.root_nodes = Append(@, node)]

(* Lines 330-333. *)
emit_error(b, kind) == [b EXCEPT !.errors = Append(@, kind)]

(* Lines 612-635, for elements without an `is` property. *)
is_component(elem) == elem.tag_name = "component" \/ elem.tag_name = "P"

(* Lines 512-529 and close_v_pre, lines 504-511: the builder and the node. *)
parse_element(b, elem) ==
    IF b.v_pre_index # {}
    THEN LET idx == CHOOSE i \in b.v_pre_index : TRUE
             b1 == DebugAssert(b, idx # Len(b.open_elems) \/ is_v_pre_boundary(elem))
             b2 == DebugAssert(b1, idx <= Len(b.open_elems))
         IN [b |-> IF b2.ok /\ idx = Len(b.open_elems)
                   THEN [b2 EXCEPT !.v_pre_index = {}] ELSE b2,
             node |-> elem]
    ELSE [b |-> b,
          node |-> IF elem.tag_name = "slot" THEN [elem EXCEPT !.tag_type = "SlotOutlet"]
                   ELSE IF is_component(elem) THEN [elem EXCEPT !.tag_type = "Component"]
                   ELSE elem]

(* Lines 491-503: the builder and the element. *)
decrement_pre(b, elem) ==
    IF ~is_pre_tag(elem.tag_name) THEN [b |-> b, elem |-> elem]
    ELSE [b |-> [b EXCEPT !.pre_count = @ - 1],
          elem |-> IF elem.children # <<>> /\ elem.children[Len(elem.children)].type = "Text"
                   THEN [elem EXCEPT !.children[Len(elem.children)] = trim_leading_newline(@)]
                   ELSE elem]

(* Lines 468-490. *)
close_element(b, has_matched_end) ==
    IF ~b.ok \/ b.open_elems = <<>> THEN [b EXCEPT !.ok = FALSE]
    ELSE LET elem == b.open_elems[Len(b.open_elems)]
             b1 == [b EXCEPT !.open_elems = SubSeq(@, 1, Len(@) - 1)]
             b2 == IF has_matched_end THEN b1 ELSE emit_error(b1, "MissingEndTag")
             pre == decrement_pre(b2, elem)
             compressed == compress_whitespaces(elem.children, need_condense)
             b3 == IF b2.pre_count > 0 THEN pre.b
                   ELSE IF get_text_mode(elem.tag_name) = "Data"
                   THEN [b2 EXCEPT !.handed = Append(@, elem.children),
                                   !.ok = compressed.ok]
                   ELSE b2
             elem3 == IF b2.pre_count > 0 THEN pre.elem
                      ELSE IF get_text_mode(elem.tag_name) = "Data"
                      THEN [elem EXCEPT !.children = compressed.nodes]
                      ELSE elem
             parsed == parse_element(b3, elem3)
         IN IF ~b3.ok THEN b3
            ELSE IF ~parsed.b.ok THEN parsed.b
            ELSE insert_node(parsed.b, parsed.node)

(* Lines 456-460: the loop that closes to_close elements. *)
RECURSIVE CloseLoop(_, _)
CloseLoop(b, to_close) ==
    IF to_close = 0 \/ ~b.ok THEN b
    ELSE CloseLoop(close_element(b, to_close - 1 = 0), to_close - 1)

(* Lines 447-467. *)
parse_end_tag(b, end_tag) ==
    LET hits == {i \in 1..Len(b.open_elems) :
                    element_matches_end_tag(b.open_elems[i], end_tag)}
    IN IF hits # {}
       THEN LET index == CHOOSE i \in hits : \A j \in hits : j <= i
                closed == CloseLoop(b, Len(b.open_elems) - (index - 1))
            IN DebugAssert(closed, Len(closed.open_elems) = index - 1)
       ELSE emit_error(b, "InvalidEndTag")

(* Lines 430-446. *)
handle_pre_like(b, elem) ==
    LET b1 == IF is_pre_tag(elem.tag_name) THEN [b EXCEPT !.pre_count = @ + 1] ELSE b
    IN IF is_v_pre_boundary(elem)
       THEN [DebugAssert(b1, b1.v_pre_index = {}) EXCEPT !.v_pre_index = {Len(b.open_elems)}]
       ELSE b1

(* Lines 371-400; parse_attributes reads no directive inside v-pre. *)
parse_open_tag(b, tag) ==
    LET elem == Element(tag.name, tag.v_pre /\ b.v_pre_index = {})
        parsed == parse_element(b, elem)
    IN IF tag.self_closing \/ is_void_tag(tag.name)
       THEN IF parsed.b.ok THEN insert_node(parsed.b, parsed.node) ELSE parsed.b
       ELSE [handle_pre_like(b, elem) EXCEPT !.open_elems = Append(@, elem)]

(* Lines 551-562. *)
parse_comment(b) ==
    IF ~option.preserve_comment THEN b ELSE insert_node(b, CommentNode)

(* Lines 563-570. *)
parse_interpolation(b) == insert_node(b, InterpolationNode)

(* Lines 573-596. *)
report_unclosed_script_comment(b) ==
    IF b.open_elems = <<>> THEN b
    ELSE LET elem == b.open_elems[Len(b.open_elems)]
             has(tn, mark) == \E k \in 1..Len(tn.text[1].raw) : tn.text[1].raw[k] = mark
         IN IF ToAsciiLower(elem.tag_name) # "script" THEN b
            ELSE IF elem.children = <<>> \/ elem.children[1].type # "Text" THEN b
            ELSE IF DerefFails(elem.children[1]) THEN [b EXCEPT !.ok = FALSE]
            ELSE IF has(elem.children[1], "<!--") /\ ~has(elem.children[1], "-->")
            THEN emit_error(b, "EofInScriptHtmlCommentLikeText")
            ELSE b

(* The handler leaves the builder as b and goes on at ph. *)
Commit(b, ph) ==
    /\ open_elems' = b.open_elems
    /\ root_nodes' = b.root_nodes
    /\ pre_count' = b.pre_count
    /\ v_pre_index' = b.v_pre_index
    /\ errors' = b.errors
    /\ handed' = b.handed
    /\ phase' = IF b.ok THEN ph ELSE "panic"

ParserInit ==
    /\ option \in ParseOptions
    /\ debug_assertions \in BOOLEAN
    /\ scanned = 0
    /\ eof = FALSE
    /\ token = NoToken
    /\ open_elems = <<>>
    /\ root_nodes = <<>>
    /\ pre_count = 0
    /\ v_pre_index = {}
    /\ errors = <<>>
    /\ handed = <<>>
    /\ phase = "next"
    /\ goal = NoGoal /\ cand = NoGoal /\ goal_kind = "" /\ mode = "parser"
    /\ env = EmptyEnv /\ env0 = EmptyEnv /\ stack = <<>> /\ ret = None
    /\ status = "idle" /\ tried = <<>>

(* Line 343: tokens.next() yields a token, or None at the end of the input. *)
BuildAstNext ==
    /\ phase = "next"
    /\ \/ /\ ~eof /\ scanned < MaxTokens
          /\ \E t \in Tokens : token' = t
          /\ scanned' = scanned + 1
          /\ phase' = "parse_token"
          /\ UNCHANGED eof
       \/ /\ eof' = TRUE
          /\ phase' = "finish"
          /\ UNCHANGED <<token, scanned>>
    /\ UNCHANGED <<option, debug_assertions, open_elems, root_nodes, pre_count,
                   v_pre_index, errors, handed, matcher_vars>>

(* Line 364: Token::EndTag. *)
ParseEndTag ==
    /\ phase = "parse_token" /\ token.type = "EndTag"
    /\ Commit(parse_end_tag(Builder, token.name), "next")
    /\ UNCHANGED <<option, debug_assertions, scanned, eof, token, matcher_vars>>

(* Lines 530-550: the Text tokens that follow join the node; the token *)
(* that ends them is handed to parse_token.                            *)
ParseText ==
    /\ phase = "parse_token" /\ token.type = "Text"
    /\ \E more \in SeqsUpTo(TextTokens, MaxTokens - scanned),
          next_token \in NonTextTokens \cup {NoToken} :
          LET used == Len(more) + (IF next_token = NoToken THEN 0 ELSE 1)
              text == <<token.text>> \o [k \in 1..Len(more) |-> more[k].text]
          IN /\ scanned + used <= MaxTokens
             /\ scanned' = scanned + used
             /\ eof' = (next_token = NoToken)
             /\ token' = next_token
             /\ Commit(insert_node(Builder, TextNode(text)),
                       IF next_token = NoToken THEN "next" ELSE "parse_token")
    /\ UNCHANGED <<option, debug_assertions, matcher_vars>>

(* Line 366: Token::StartTag. *)
ParseOpenTag ==
    /\ phase = "parse_token" /\ token.type = "StartTag"
    /\ Commit(parse_open_tag(Builder, token), "next")
    /\ UNCHANGED <<option, debug_assertions, scanned, eof, token, matcher_vars>>

(* Line 367: Token::Comment. *)
ParseComment ==
    /\ phase = "parse_token" /\ token.type = "Comment"
    /\ Commit(parse_comment(Builder), "next")
    /\ UNCHANGED <<option, debug_assertions, scanned, eof, token, matcher_vars>>

(* Line 368: Token::Interpolation. *)
ParseInterpolation ==
    /\ phase = "parse_token" /\ token.type = "Interpolation"
    /\ Commit(parse_interpolation(Builder), "next")
    /\ UNCHANGED <<option, debug_assertions, scanned, eof, token, matcher_vars>>

(* Lines 346-358: the end of build_ast. *)
BuildAstFinish ==
    /\ phase = "finish"
    /\ LET b1 == report_unclosed_script_comment(Builder)
           RECURSIVE CloseAll(_, _)
           CloseAll(b, n) == IF n = 0 \/ ~b.ok THEN b
                             ELSE CloseAll(close_element(b, FALSE), n - 1)
           b2 == CloseAll(b1, Len(b1.open_elems))
           b3 == DebugAssert(DebugAssert(b2, b2.pre_count = 0), b2.v_pre_index = {})
           compressed == compress_whitespaces(b3.root_nodes, need_condense)
       IN IF ~b3.ok THEN Commit(b3, "done")
          ELSE Commit([b3 EXCEPT !.handed = Append(@, b3.root_nodes),
                                 !.root_nodes = compressed.nodes,
                                 !.ok = compressed.ok], "done")
    /\ UNCHANGED <<option, debug_assertions, scanned, eof, token, matcher_vars>>

ParserNext ==
    \/ BuildAstNext
    \/ ParseEndTag
    \/ ParseText
    \/ ParseOpenTag
    \/ ParseComment
    \/ ParseInterpolation
    \/ BuildAstFinish

ParserSpec == ParserInit /\ [][ParserNext]_vars

(***************************************************************************)
(* Vocabulary of the properties.                                           *)
(***************************************************************************)
Done == status = "done"

(* The paths of the nodes of a tree in pre-order. *)
RECURSIVE PreOrder(_)
PreOrder(tree) ==
    LET RECURSIVE Sub(_)
        Sub(i) ==
            IF i > Len(tree.children) THEN <<>>
            ELSE LET ps == PreOrder(tree.children[i])
                 IN [k \in 1..Len(ps) |-> <<i>> \o ps[k]] \o Sub(i + 1)
    IN <<(<<>>)>> \o Sub(1)

Paths(tree) == {PreOrder(tree)[k] : k \in 1..Len(PreOrder(tree))}

NoMetaVar(tree) ==
    \A p \in Paths(tree) : extract_var_from_node(NodeAt(tree, p)) = NoVar

(***************************************************************************)
(* C1  Literal equality: a tree in which no node's text classifies as a    *)
(* meta-variable, matched by match_node_exact against itself, yields       *)
(* Some(candidate) and leaves env exactly as it was handed in.             *)
(***************************************************************************)
C1_LiteralEquality ==
    (mode = "exact" /\ goal = cand /\ NoMetaVar(cand)) =>
        /\ status # "panic"
        /\ Done => (ret = Some(<<>>) /\ env = env0)

C1_Witness ==
    /\ Done /\ mode = "exact" /\ goal = cand /\ NoMetaVar(cand)
    /\ Len(cand.children) > 1
    /\ \E i \in 1..Len(cand.children) : ~IsLeaf(cand.children[i])
    /\ env0 = StaleEnv
    /\ ret = Some(<<>>)

(* The innermost call returns: its frame is popped. *)
Returns == stack' = SubSeq(stack, 1, Len(stack) - 1)

KindsIn(tree) == {NodeAt(tree, p).kind : p \in Paths(tree)}

(***************************************************************************)
(* C2  Kind mismatch fails fast: match_node_exact on a goal with children  *)
(* and a candidate of another kind returns None at once, calling no child  *)
(* match and leaving env alone; so match_node_recursive returns None on a  *)
(* candidate tree holding no node of the goal root's kind.                 *)
(***************************************************************************)
C2_KindMismatchFailsFast ==
    /\ [][(At("exact", "entry") /\ ~IsLeaf(GoalNode)
              /\ GoalNode.kind # CandNode.kind)
            => (Returns /\ ret' = None /\ env' = env)]_vars
    /\ []((mode = "recursive" /\ ~IsLeaf(goal) /\ goal.kind \notin KindsIn(cand))
            => (status # "panic" /\ (Done => ret = None)))

C2_Witness ==
    /\ Done /\ mode = "recursive"
    /\ goal = ConstDecl /\ cand = Program(VarDecl)
    /\ ret = None

(***************************************************************************)
(* C3  Single wildcard: a leaf goal classified Named(name) matches every   *)
(* candidate node; the call returns that node and changes env only by      *)
(* binding name to it.                                                     *)
(***************************************************************************)
C3_SingleWildcard ==
    /\ [][(At("exact", "entry") /\ IsLeaf(GoalNode)
              /\ extract_var_from_node(GoalNode).tag = "Named")
            => LET name == extract_var_from_node(GoalNode).name
               IN /\ Returns
                  /\ ret' = Some(Top.c)
                  /\ DOMAIN env' = DOMAIN env \cup {name}
                  /\ env'[name] = Top.c
                  /\ \A n \in DOMAIN env \ {name} : env'[n] = env[n]]_vars
    /\ []((Done /\ mode = "exact" /\ IsLeaf(goal)
              /\ extract_var_from_node(goal).tag = "Named" /\ env0 = EmptyEnv)
            => /\ ret = Some(<<>>)
               /\ DOMAIN env = {extract_var_from_node(goal).name}
               /\ env[extract_var_from_node(goal).name] = <<>>)

C3_Witness ==
    /\ Done /\ mode = "exact"
    /\ goal = VarA /\ ~IsLeaf(cand) /\ cand.kind # goal.kind
    /\ env0 = EmptyEnv
    /\ DOMAIN env = {<<"A">>}

(***************************************************************************)
(* C4  Anonymous ellipsis is fully elastic: a goal made of an opening      *)
(* token, an anonymous ellipsis and an unnamed closing token matches a     *)
(* candidate of its kind that starts with the same opening token and has   *)
(* its own closing token, whatever the number of children in between,      *)
(* none included, and no binding is written.                               *)
(***************************************************************************)
IsParenEllipsisGoal(g) ==
    /\ Len(g.children) = 3
    /\ \A i \in 1..3 : IsLeaf(g.children[i])
    /\ extract_var_from_node(g.children[1]) = NoVar
    /\ extract_var_from_node(g.children[2]) = Ellipsis
    /\ ~g.children[3].named

C4_AnonymousEllipsisElastic ==
    (mode = "exact" /\ IsParenEllipsisGoal(goal) /\ cand.kind = goal.kind
        /\ Len(cand.children) >= 2 /\ cand.children[1] = goal.children[1])
      => /\ status # "panic"
         /\ env = env0
         /\ Done => ret = Some(<<>>)

C4_Witness ==
    /\ Done /\ mode = "exact"
    /\ goal = Args(<<Dots>>) /\ cand = Args(<<>>)
    /\ ret = Some(<<>>) /\ env = env0

(***************************************************************************)
(* C5  Ellipsis followed by a sub-pattern P: the forward scan tries P on   *)
(* the candidate child under the cursor, anchors P there on success, moves *)
(* the cursor on by one child on failure and fails the whole match when    *)
(* no child is left.  `($$$, c)`, `($$$, b, c)`, `($$$, a, b, c)` match    *)
(* `(a, b, c)`; `($$$, a, b, c)` does not match `(b, c)`; the same with a  *)
(* named ellipsis.                                                         *)
(***************************************************************************)
ABC == ArgSlice(1, 3)

C5_Matching ==
    {[goal |-> h \o ArgSlice(i, 3), cand |-> ABC] : h \in {<<Dots>>, <<DotsA>>}, i \in 1..3}
C5_NotMatching ==
    {[goal |-> h \o ABC, cand |-> ArgSlice(2, 3)] : h \in {<<Dots>>, <<DotsA>>}}

C5_EllipsisAnchor ==
    /\ [][(At("exact", "scan")
            => stack' = Append([stack EXCEPT ![Len(stack)].pc = "scan_ret"],
                               Frame("exact", Append(Top.g, Top.gi),
                                     Append(Top.c, Top.ci), "entry")))
          /\ ((At("exact", "scan_ret") /\ ret.some)
            => stack' = [stack EXCEPT ![Len(stack)].pc = "child"])
          /\ ((At("exact", "scan_ret") /\ ~ret.some /\ Top.ci < CandLen)
            => stack' = [stack EXCEPT ![Len(stack)].pc = "scan",
                                      ![Len(stack)].ci = Top.ci + 1])
          /\ ((At("exact", "scan_ret") /\ ~ret.some /\ Top.ci >= CandLen)
            => (Returns /\ ret' = None))]_vars
    /\ []((Done /\ mode = "exact") =>
            /\ \A x \in C5_Matching :
                  (goal = Args(x.goal) /\ cand = Args(x.cand)) => ret = Some(<<>>)
            /\ \A x \in C5_NotMatching :
                  (goal = Args(x.goal) /\ cand = Args(x.cand)) => ret = None)
    /\ []((Done /\ mode = "recursive") =>
            /\ \A x \in C5_Matching :
                  (goal = CallExpr(<<"f">>, x.goal)
                     /\ cand = Program(CallExpr(<<"f">>, x.cand))) => ret = Some(<<1>>)
            /\ \A x \in C5_NotMatching :
                  (goal = CallExpr(<<"f">>, x.goal)
                     /\ cand = Program(CallExpr(<<"f">>, x.cand))) => ret = None)

C5_Witness ==
    /\ Done /\ mode = "exact"
    /\ goal = Args(<<DotsA>> \o ArgSlice(3, 3)) /\ cand = Args(ABC)
    /\ ret = Some(<<>>)

(***************************************************************************)
(* C6  Tree search is pre-order first-match: match_node_recursive tries    *)
(* match_node_exact on the candidate's nodes in pre-order, returns the     *)
(* first node on which it succeeds and None when it succeeds on none.      *)
(***************************************************************************)
C6_PreOrderFirstMatch ==
    /\ (Done /\ mode = "recursive") =>
          LET pre == PreOrder(cand)
          IN IF ret.some
             THEN \E k \in 1..Len(pre) :
                      /\ ret.node = pre[k]
                      /\ tried = [i \in 1..k |-> <<pre[i], i = k>>]
             ELSE tried = [i \in 1..Len(pre) |-> <<pre[i], FALSE>>]
    /\ (Done /\ mode = "recursive" /\ goal = Func(Foo, <<LetDecl>>)
          /\ cand = Program(Func(Foo, <<Func(Bar, <<LetDecl>>)>>)))
        => ret = None

C6_Witness ==
    /\ Done /\ mode = "recursive"
    /\ goal = Func(Bar, <<LetDecl>>)
    /\ cand = Program(Func(Foo, <<Func(Bar, <<LetDecl>>)>>))
    /\ ret = Some(<<1, 4, 2>>)

(***************************************************************************)
(* C7  Kind search is capture-free: match_single_kind returns the first    *)
(* node in pre-order, the candidate included, whose kind is goal_kind,     *)
(* None when there is none, and env stays as it was handed in.             *)
(***************************************************************************)
C7_KindSearch ==
    mode = "kind" =>
        /\ env = env0
        /\ Done =>
             LET pre == PreOrder(cand)
                 hits == {k \in 1..Len(pre) : NodeAt(cand, pre[k]).kind = goal_kind}
             IN IF hits = {} THEN ret = None
                ELSE \E k \in hits : (\A j \in hits : k <= j) /\ ret = Some(pre[k])

C7_Witness ==
    /\ Done /\ mode = "kind"
    /\ env0 = StaleEnv /\ env = StaleEnv
    /\ ret.some /\ Len(ret.node) = 3

(***************************************************************************)
(* C8  Whenever a call of match_node_exact returns Some, the node is the   *)
(* candidate that was passed to that very call.                            *)
(***************************************************************************)
C8_ReturnsItsCandidate ==
    [][(Running /\ Top.fn = "exact" /\ Returns /\ ret'.some)
         => ret' = Some(Top.c)]_vars

C8_Witness ==
    /\ At("exact", "child_ret")
    /\ ret = Some(Append(Top.c, Top.ci))
    /\ ~IsLeaf(NodeAt(goal, Append(Top.g, Top.gi)))
    /\ \E i \in 1..Len(NodeAt(goal, Append(Top.g, Top.gi)).children) :
          is_ellipsis(NodeAt(goal, Append(Top.g, Top.gi)).children[i])

(***************************************************************************)
(* C9  Matching never aborts: no unwrap meets None and the debug           *)
(* assertion holds, for ill-formed goals too; a finished call has left     *)
(* None or Some of a node of the candidate tree.                           *)
(***************************************************************************)
PcLabels ==
    [exact |-> {"entry", "loop", "skip", "after_skip", "scan", "scan_ret",
                "child", "child_ret"},
     recursive |-> {"entry", "exact_ret", "children", "child_ret"},
     kind |-> {"entry", "children", "child_ret"}]

C9_NeverAborts ==
    /\ status # "panic"
    /\ status = "running" => (Len(stack) > 0 /\ Top.pc \in PcLabels[Top.fn])
    /\ Done => /\ stack = <<>>
               /\ ret = None \/ (ret.some /\ ret.node \in Paths(cand))

C9_Witness ==
    /\ Done /\ mode = "exact"
    /\ Len(goal.children) = 3 /\ Len(cand.children) = 1
    /\ is_ellipsis(goal.children[1]) /\ is_ellipsis(goal.children[2])
    /\ ~goal.children[3].named

(***************************************************************************)
(* C10 as stated: when the last goal child, not an ellipsis, has been      *)
(* matched while candidate children remain after the matched one,          *)
(* match_node_exact returns None.                                          *)
(***************************************************************************)
C10_Original ==
    [][(At("exact", "child_ret") /\ ret.some
          /\ Top.gi = GoalLen /\ Top.ci < CandLen)
         => (Returns /\ ret' = None)]_vars

(***************************************************************************)
(* C10 amended: when the last goal child, not an ellipsis, has been        *)
(* matched, match_node_exact returns Some(candidate) whether or not        *)
(* candidate children remain after the matched one; `const a = 123`        *)
(* matches `const a = 123;`.                                               *)
(***************************************************************************)
C10_LeftoverAccepted ==
    /\ [][(At("exact", "child_ret") /\ ret.some /\ Top.gi = GoalLen)
            => (Returns /\ ret' = Some(Top.c) /\ env' = env)]_vars
    /\ []((Done /\ mode = "exact" /\ goal = ConstDecl /\ cand = ConstDeclSemi)
            => ret = Some(<<>>))

C10_Witness ==
    /\ Done /\ mode = "exact"
    /\ goal = ConstDecl /\ cand = ConstDeclSemi
    /\ ret = Some(<<>>)

(***************************************************************************)
(* C11  A trailing ellipsis consumes any remainder, the empty one          *)
(* included: when the goal children before a final ellipsis are literal    *)
(* leaves and the candidate, of the goal's kind, starts with the same      *)
(* leaves, match_node_exact returns Some(candidate) whatever the number of *)
(* candidate children after them, zero too.                                *)
(***************************************************************************)
IsLiteralLeaf(n) == IsLeaf(n) /\ extract_var_from_node(n) = NoVar

LiteralsThenEllipsis(g) ==
    /\ Len(g.children) >= 2
    /\ is_ellipsis(g.children[Len(g.children)])
    /\ \A i \in 1..(Len(g.children) - 1) : IsLiteralLeaf(g.children[i])

C11_TrailingEllipsisTakesRest ==
    (Done /\ mode = "exact" /\ LiteralsThenEllipsis(goal) /\ cand.kind = goal.kind
        /\ Len(cand.children) >= Len(goal.children) - 1
        /\ \A i \in 1..(Len(goal.children) - 1) : cand.children[i] = goal.children[i])
      => ret = Some(<<>>)

(***************************************************************************)
(* C12  Literal leaf matching: on a leaf goal whose text classifies as no  *)
(* meta-variable, match_node_exact returns Some(candidate) exactly when    *)
(* kind and text of goal and candidate are equal, None otherwise, and      *)
(* leaves env alone either way; `function foo() {...}` matches nowhere in  *)
(* `function bar() {...}`.                                                 *)
(***************************************************************************)
C12_LiteralLeaf ==
    /\ [][(At("exact", "entry") /\ IsLiteralLeaf(GoalNode))
            => /\ Returns
               /\ env' = env
               /\ ret' = IF GoalNode.kind = CandNode.kind
                              /\ Text(GoalNode) = Text(CandNode)
                         THEN Some(Top.c) ELSE None]_vars
    /\ []((Done /\ mode = "recursive" /\ goal = Func(Foo, <<LetDecl>>)
              /\ cand = Program(Func(Bar, <<LetDecl>>)))
            => (ret = None /\ env = env0))

C12_Witness ==
    /\ At("exact", "child_ret") /\ ret = None
    /\ LET g == NodeAt(goal, Append(Top.g, Top.gi))
           c == NodeAt(cand, Append(Top.c, Top.ci))
       IN IsLiteralLeaf(g) /\ g.kind = c.kind /\ Text(g) # Text(c)

(***************************************************************************)
(* C13  The ellipsis anchor is greedy and never revisited: a goal child    *)
(* that fails after the anchor makes the call return None at once, and no  *)
(* cursor of a call ever moves back.  BacktrackMatch is the reference      *)
(* matcher that tries every anchor: it accepts whatever match_node_exact   *)
(* accepts, and it accepts `[$$$, a, b]` against `[a, c, a, b]`, which     *)
(* match_node_exact rejects.                                               *)
(***************************************************************************)
RECURSIVE BacktrackMatch(_, _)
BacktrackMatch(g, c) ==
    LET gs == g.children
        cs == c.children
        RECURSIVE Skip(_), Sequence(_, _)
        (* first goal child at or after i that is named, 0 when none *)
        Skip(i) ==
            IF i > Len(gs) THEN 0
            ELSE IF gs[i].named THEN i ELSE Skip(i + 1)
        After(i, j) ==
            IF i + 1 > Len(gs) THEN TRUE
            ELSE IF j + 1 > Len(cs) THEN FALSE
            ELSE Sequence(i + 1, j + 1)
        Sequence(i, j) ==
            IF is_ellipsis(gs[i])
            THEN LET p == Skip(i + 1)
                 IN IF p = 0 THEN TRUE
                    ELSE IF is_ellipsis(gs[p])
                    THEN j + 1 <= Len(cs) /\ Sequence(p, j + 1)
                    ELSE \E k \in j..Len(cs) :
                            BacktrackMatch(gs[p], cs[k]) /\ After(p, k)
            ELSE BacktrackMatch(gs[i], cs[j]) /\ After(i, j)
    IN IF IsLeaf(g) /\ extract_var_from_node(g) # NoVar THEN TRUE
       ELSE IF g.kind # c.kind THEN FALSE
       ELSE IF IsLeaf(g) THEN Text(g) = Text(c)
       ELSE Len(cs) > 0 /\ Sequence(1, 1)

C13_GreedyAnchor ==
    /\ [][(At("exact", "child_ret") /\ ~ret.some)
            => (Returns /\ ret' = None /\ env' = env)]_vars
    /\ [][(Running /\ Len(stack') = Len(stack))
            => (stack'[Len(stack)].gi >= Top.gi /\ stack'[Len(stack)].ci >= Top.ci)]_vars
    /\ []((Done /\ mode = "exact" /\ ret.some) => BacktrackMatch(goal, cand))
    /\ []((Done /\ mode = "exact" /\ goal = AnchorGoal /\ cand = AnchorCand)
            => (ret = None /\ BacktrackMatch(goal, cand)))

C13_Witness ==
    /\ Done /\ mode = "exact"
    /\ goal = AnchorGoal /\ cand = AnchorCand
    /\ ret = None /\ BacktrackMatch(goal, cand)

(***************************************************************************)
(* C14  Environment writes are never undone: no step removes an entry,     *)
(* env changes only by the insert of a meta-variable leaf goal binding its *)
(* name to the candidate of that call, and a call that returns None hands  *)
(* back env as its sub-matches left it; so a call can return None with an  *)
(* env that differs from the one it was given.                             *)
(***************************************************************************)
C14_EnvNeverUndone ==
    /\ [][DOMAIN env \subseteq DOMAIN env']_vars
    /\ [][env' # env
            => /\ At("exact", "entry") /\ IsLeaf(GoalNode)
               /\ extract_var_from_node(GoalNode).tag \in {"Named", "NamedEllipsis"}
               /\ env' = EnvInsert(env, extract_var_from_node(GoalNode).name, Top.c)]_vars
    /\ [][(Running /\ Returns /\ ~ret'.some) => env' = env]_vars

C14_Witness ==
    /\ Done /\ mode = "exact" /\ ret = None
    /\ ~IsLeaf(goal) /\ is_ellipsis(goal.children[1])
    /\ env0 = EmptyEnv /\ DOMAIN env = {<<"A">>}

(***************************************************************************)
(* C15  A named ellipsis met as a child in the sequence loop writes        *)
(* nothing: the steps of the loop that handle an ellipsis leave env alone, *)
(* no goal child that classifies as an ellipsis is ever handed to          *)
(* match_node_exact, and env changes under a goal with children only when  *)
(* the goal holds a Named leaf.  Only a named ellipsis leaf that is itself *)
(* the goal of the call binds its name, to the single candidate of that    *)
(* call.                                                                   *)
(***************************************************************************)
NamedLeafNames(g) ==
    {extract_var_from_node(NodeAt(g, p)).name :
        p \in {q \in Paths(g) : /\ IsLeaf(NodeAt(g, q))
                                /\ extract_var_from_node(NodeAt(g, q)).tag = "Named"}}

C15_NamedEllipsisUnbound ==
    /\ [][(At("exact", "loop") \/ At("exact", "skip") \/ At("exact", "after_skip"))
            => env' = env]_vars
    /\ []((At("exact", "entry") /\ is_ellipsis(GoalNode)) => Top.g = <<>>)
    /\ [][(At("exact", "entry") /\ IsLeaf(GoalNode)
              /\ extract_var_from_node(GoalNode).tag = "NamedEllipsis")
            => /\ Top.g = <<>>
               /\ Returns
               /\ ret' = Some(Top.c)
               /\ env' = EnvInsert(env, extract_var_from_node(GoalNode).name, Top.c)]_vars
    /\ []((~IsLeaf(goal) /\ env # env0) => NamedLeafNames(goal) # {})

C15_Witness ==
    /\ Done /\ mode = "exact"
    /\ goal = Args(<<DotsA>> \o ArgSlice(3, 3)) /\ cand = Args(ABC)
    /\ env0 = EmptyEnv /\ env = EmptyEnv /\ ret.some

(***************************************************************************)
(* C16  Adjacent ellipses: when the goal cursor, after an ellipsis and the *)
(* unnamed children behind it, is on another ellipsis, the candidate       *)
(* cursor moves on by exactly one child and the loop restarts on the       *)
(* second ellipsis, or the call returns None when no candidate child is    *)
(* left after that move.  `($$$A, $$$B)` matches an argument list exactly  *)
(* when it has an argument, and `f($$$A, $$$B)` is found nowhere in `f()`. *)
(***************************************************************************)
C16_AdjacentEllipses ==
    /\ [][(At("exact", "after_skip") /\ is_ellipsis(GoalNode.children[Top.gi]))
            => /\ env' = env
               /\ IF Top.ci < CandLen
                  THEN stack' = [stack EXCEPT ![Len(stack)].pc = "loop",
                                              ![Len(stack)].ci = Top.ci + 1]
                  ELSE Returns /\ ret' = None]_vars
    /\ []((Done /\ mode = "exact" /\ goal = Args(AdjacentArgs))
            => (ret.some <=> \E c \in ArgSlices : c # <<>> /\ cand = Args(c)))
    /\ []((Done /\ mode = "recursive" /\ goal = CallExpr(<<"f">>, AdjacentArgs))
            => (ret.some <=> cand # Program(CallExpr(<<"f">>, <<>>))))

C16_Witness ==
    /\ Done /\ mode = "exact"
    /\ goal = Args(AdjacentArgs) /\ cand = Args(<<>>)
    /\ ret = None

(***************************************************************************)
(* C17  Unnamed goal children right behind an ellipsis carry no weight:    *)
(* each is skipped by a step that moves the goal cursor only, calls no     *)
(* match and leaves env alone, and the call returns Some(candidate) when   *)
(* the goal ends with them.  For a goal `$$$ u.. rest`, u.. unnamed tokens *)
(* and rest at most one literal leaf, the result is the one the named      *)
(* children alone decide, whatever the kinds and texts of u.., with env    *)
(* as it was given.                                                        *)
(***************************************************************************)
NamedRest(g) == SelectSeq(Tail(g.children), LAMBDA n : n.named)

C17_UnnamedAfterEllipsis ==
    /\ [][(At("exact", "skip") /\ ~GoalNode.children[Top.gi].named)
            => /\ env' = env
               /\ IF Top.gi < GoalLen
                  THEN stack' = [stack EXCEPT ![Len(stack)].gi = Top.gi + 1]
                  ELSE Returns /\ ret' = Some(Top.c)]_vars
    /\ []((Done /\ mode = "exact" /\ goal \in SkipGoals)
            => /\ env = env0
               /\ ret = IF Len(cand.children) = 0 THEN None
                         ELSE IF NamedRest(goal) = <<>> THEN Some(<<>>)
                         ELSE IF \E k \in 1..Len(cand.children) :
                                    cand.children[k] = NamedRest(goal)[1]
                         THEN Some(<<>>) ELSE None)

C17_Witness ==
    /\ Done /\ mode = "exact"
    /\ goal = Inner("arguments", <<Dots, Semi, RParen, IdB>>)
    /\ cand = Inner("arguments", <<IdA, IdB>>)
    /\ ret = Some(<<>>)

(***************************************************************************)
(* C18  No stale binding survives a success: when match_node_exact or      *)
(* match_node_recursive, started with the empty env, returns Some(node),   *)
(* env binds exactly the names the goal can bind, each to a node inside    *)
(* the returned subtree that lies as deep below the returned node as the   *)
(* last occurrence of the name lies in the goal and whose ancestors are    *)
(* matched, level by level, by the ancestors of that occurrence.           *)
(***************************************************************************)
BoundNames(g) ==
    NamedLeafNames(g)
        \cup (IF IsLeaf(g) /\ extract_var_from_node(g).tag = "NamedEllipsis"
              THEN {extract_var_from_node(g).name} ELSE {})

(* The path of the last leaf of g, in pre-order, that binds name. *)
LastOccurrence(g, name) ==
    LET pre == PreOrder(g)
        binds(k) == /\ IsLeaf(NodeAt(g, pre[k]))
                    /\ extract_var_from_node(NodeAt(g, pre[k])).tag
                          \in {"Named", "NamedEllipsis"}
                    /\ extract_var_from_node(NodeAt(g, pre[k])).name = name
        ks == {k \in 1..Len(pre) : binds(k)}
    IN pre[CHOOSE k \in ks : \A j \in ks : j <= k]

AlignedWith(root, gp, cp) ==
    /\ Len(cp) = Len(root) + Len(gp)
    /\ SubSeq(cp, 1, Len(root)) = root
    /\ \A k \in 0..(Len(gp) - 1) :
          BacktrackMatch(NodeAt(goal, SubSeq(gp, 1, k)),
                         NodeAt(cand, SubSeq(cp, 1, Len(root) + k)))

C19_NoAdjacentText ==
    \A k \in 1..Len(handed) : no_consecutive_text(handed[k])

(***************************************************************************)
(* C20  Template parser, end tag: an end tag closes the innermost open     *)
(* element of its name, ASCII case ignored, and every element opened after *)
(* it, reports MissingEndTag once for each of these later elements and not *)
(* for the matched one, and leaves on the stack the elements below the     *)
(* matched one; an end tag that matches no open element reports            *)
(* InvalidEndTag and leaves the stack and the tree as they were.           *)
(***************************************************************************)
(* node is the element elems[k] closed with elems[k + 1].. nested in it. *)
RECURSIVE ClosedChain(_, _, _)
ClosedChain(node, elems, k) ==
    /\ node.type = "Element"
    /\ node.tag_name = elems[k].tag_name
    /\ k < Len(elems) =>
          /\ node.children # <<>>
          /\ ClosedChain(node.children[Len(node.children)], elems, k + 1)

(* after is before with one node appended, the closed chain from elems[k]. *)
ClosedInto(before, after, elems, k) ==
    /\ Len(after) = Len(before) + 1
    /\ SubSeq(after, 1, Len(before)) = before
    /\ ClosedChain(after[Len(after)], elems, k)

C20_EndTagClosesInnermost ==
    [][(phase = "parse_token" /\ token.type = "EndTag")
         => LET hits == {i \in 1..Len(open_elems) :
                            ToAsciiLower(open_elems[i].tag_name) = ToAsciiLower(token.name)}
            IN IF hits = {}
               THEN /\ phase' = "next"
                    /\ errors' = Append(errors, "InvalidEndTag")
                    /\ open_elems' = open_elems
                    /\ root_nodes' = root_nodes
               ELSE LET i == CHOOSE x \in hits : \A y \in hits : y <= x
                    IN /\ phase' = "next"
                       /\ errors' = errors \o [k \in 1..(Len(open_elems) - i) |-> "MissingEndTag"]
                       /\ Len(open_elems') = i - 1
                       /\ \A j \in 1..(i - 2) : open_elems'[j] = open_elems[j]
                       /\ IF i = 1
                          THEN ClosedInto(root_nodes, root_nodes', open_elems, 1)
                          ELSE /\ root_nodes' = root_nodes
                               /\ [open_elems'[i - 1] EXCEPT !.children = <<>>]
                                    = [open_elems[i - 1] EXCEPT !.children = <<>>]
                               /\ ClosedInto(open_elems[i - 1].children,
                                             open_elems'[i - 1].children, open_elems, i)]_vars

(***************************************************************************)
(* C21.  Termination.                                                      *)
(***************************************************************************)
(* q is a child of the node at p. *)
ProperChild(p, q) == Len(q) = Len(p) + 1 /\ SubSeq(q, 1, Len(p)) = p

(* A step of the innermost call of match_node_exact inside its body: no   *)
(* cursor moves back, every way back to the head of the sequence loop     *)
(* moves a cursor forward, and so does every way back to the head of the  *)
(* forward scan.                                                          *)
CursorsAdvance ==
    (Len(stack') = Len(stack) /\ Len(stack) > 0)
      => LET t == stack'[Len(stack')]
         IN /\ SubSeq(stack', 1, Len(stack) - 1) = SubSeq(stack, 1, Len(stack) - 1)
            /\ t.fn = Top.fn /\ t.g = Top.g /\ t.c = Top.c
            /\ (Top.fn = "exact" /\ Top.pc # "entry")
                 => /\ t.gi >= Top.gi /\ t.ci >= Top.ci
                    /\ t.pc = "loop" => (t.gi > Top.gi \/ t.ci > Top.ci)
                    /\ t.pc = "scan" /\ Top.pc = "scan_ret" => t.ci > Top.ci

(* A call leaves the cursors of its caller alone and is on the caller's   *)
(* nodes or on children of them; a function calls itself on a child of    *)
(* its goal or of its candidate, and the only other call is               *)
(* match_node_recursive calling match_node_exact.  A return leaves the    *)
(* frames of the callers as they were.                                    *)
CallsDescend ==
    /\ Len(stack') = Len(stack) + 1
         => LET callee == stack'[Len(stack')]
                caller == stack'[Len(stack)]
            IN /\ SubSeq(stack', 1, Len(stack) - 1) = SubSeq(stack, 1, Len(stack) - 1)
               /\ [caller EXCEPT !.pc = Top.pc] = Top
               /\ callee.g = Top.g \/ ProperChild(Top.g, callee.g)
               /\ callee.c = Top.c \/ ProperChild(Top.c, callee.c)
               /\ mode # "kind" => callee.g \in Paths(goal)
               /\ callee.c \in Paths(cand)
               /\ callee.fn = Top.fn
                    => (ProperChild(Top.g, callee.g) \/ ProperChild(Top.c, callee.c))
               /\ callee.fn # Top.fn => (Top.fn = "recursive" /\ callee.fn = "exact")
    /\ Len(stack') < Len(stack) => Returns
    /\ Len(stack') <= Len(stack) + 1

(* C21: on every finite goal and candidate tree match_node_exact,         *)
(* match_node_recursive and match_single_kind return; each iteration of   *)
(* the sequence loop and of the forward scan moves the goal cursor or the *)
(* candidate cursor forward, and every recursive call is on a proper      *)
(* subtree of the goal or of the candidate.                               *)
C21_Terminates ==
    /\ <>Done
    /\ [][CursorsAdvance /\ CallsDescend]_vars

(* A search of match_node_recursive for a goal with an ellipsis followed   *)
(* by further children has returned after trying more than one candidate  *)
(* node, one of them with success.                                        *)
C21_Witness ==
    /\ Done /\ mode = "recursive"
    /\ Len(tried) > 1
    /\ \E k \in 1..Len(tried) : tried[k][2]
    /\ \E p \in Paths(goal) :
          \E i \in 1..(Len(NodeAt(goal, p).children) - 1) :
              is_ellipsis(NodeAt(goal, p).children[i])

====
